---- MODULE Spec2Model ----
(***************************************************************************)
(* Model of the two tool handlers of CustomMCPTools:                       *)
(*   tools/QueryDatabase/database_agent.py   database_agent(question)      *)
(*   tools/EmailService/mcp_server_email.py  send_email(to, subject, body) *)
(* Every call a handler makes to the outside (database, language model,    *)
(* SMTP transport, JSON encoder) is a step that either returns a value or  *)
(* raises; the values and exception texts are drawn from small sets, or    *)
(* are fixed by deterministic stubs when det is TRUE.                      *)
(***************************************************************************)
EXTENDS Integers, Sequences, FiniteSets, TLC

VARIABLES
  prog,       \* the server program that runs: each file is a program of its own
  env,        \* process environment: name -> [set, val]
  det,        \* TRUE: model and database are deterministic stubs
  dpc,        \* database_agent invocation -> position in the handler
  question,   \* database_agent invocation -> argument
  db,         \* database_agent invocation -> its SQLDatabase (0: none yet)
  llm,        \* database_agent invocation -> its ChatOpenAI (0: none yet)
  state,      \* database_agent invocation -> the pipeline State dict
  dcalls,     \* database_agent invocation -> external calls it made, in order
  response,   \* database_agent invocation -> the returned JSON object
  mpc,        \* send_email invocation -> position in the handler
  mail,       \* send_email invocation -> arguments (to_email, subject, body)
  msg,        \* send_email invocation -> its MIMEText message
  server,     \* send_email invocation -> its SMTP session (0: none)
  mcalls,     \* send_email invocation -> transport calls it made, in order
  report      \* send_email invocation -> the returned string

dbvars == <<dpc, question, db, llm, state, dcalls, response>>
mailvars == <<mpc, mail, msg, server, mcalls, report>>
vars == <<prog, env, det, dbvars, mailvars>>

----------------------------------------------------------------------------
(* Bounds *)
NumDbCalls == 2
NumMailCalls == 2

DbCalls == 1..NumDbCalls
MailCalls == 1..NumMailCalls

Questions == {"Who are the users?", "How old are they?"}
Sqls == {"", "SELECT name FROM users LIMIT 10"}
Rows == {"", "[('Alice',), ('Bob',)]"}
Answers == {"", "The users are Alice and Bob."}
ToEmails == {"a@example.com", "b@example.com"}
Subjects == {"Hi", ""}
Bodies == {"Test"}

----------------------------------------------------------------------------
(* Environment: os.environ.get(name) is None when the name is not set. *)
Unset == [set |-> FALSE, val |-> ""]
EnvVal(s) == [set |-> TRUE, val |-> s]
EnvValues == {Unset, EnvVal(""), EnvVal("x")}

\* Python truthiness of os.environ.get(name): None and "" are both false.
Truthy(v) == v.set /\ v.val # ""

----------------------------------------------------------------------------
(* JSON values of the response: a string or null (json.dumps(None)). *)
JNull == [t |-> "null", s |-> ""]
JStr(s) == [t |-> "str", s |-> s]

\* An outcome of an external call: a returned value or a raised exception
\* whose str() is val.
Ok(v) == [ok |-> TRUE, val |-> v]
Raise(t) == [ok |-> FALSE, val |-> t]
AnyOutcome(values, texts) == {Ok(v) : v \in values} \cup {Raise(t) : t \in texts}

----------------------------------------------------------------------------
(* database_agent *)

\* Variant of the check that tests the values against None only.
MissingConfigNoneOnly(e) ==
  IF ~e.OPENAI_API_KEY.set
    THEN <<"OPENAI_API_KEY environment variable is required">>
    ELSE IF ~e.POSTGRESQL_URL.set
      THEN <<"POSTGRESQL_URL environment variable is required">>
      ELSE <<>>

\* lines 51-54: the first missing configuration value, as the ValueError text
MissingConfig(e) ==
  IF ~Truthy(e.OPENAI_API_KEY)
    THEN <<"OPENAI_API_KEY environment variable is required">>
    ELSE IF ~Truthy(e.POSTGRESQL_URL)
      THEN <<"POSTGRESQL_URL environment variable is required">>
      ELSE <<>>

\* line 122
NewState(q) == [question |-> q, query |-> "", result |-> "", answer |-> ""]

TopK == 10

\* lines 90-97: the variables given to the query prompt template
QueryPrompt(st, dialect, info) ==
  [dialect |-> dialect, top_k |-> TopK, table_info |-> info, input |-> st.question]

\* Variant that hands the question, not the generated SQL, to the query tool.
ExecArgQuestion(st) == st.question

\* line 106: the text handed to the query tool
ExecArg(st) == st.query

\* Variant whose prompt also carries what earlier invocations left behind.
AnswerPromptHistory(st) ==
  "Given the following user question, corresponding SQL query, "
    \o "and SQL result, answer the user question.\n\n"
    \o "Question: " \o st.question \o "\n"
    \o "SQL Query: " \o st.query \o "\n"
    \o "SQL Result: " \o st.result
    \o (IF \E p \in DbCalls : dpc[p] = "done" THEN "\nEarlier answers exist" ELSE "")

\* lines 111-117
AnswerPrompt(st) ==
  "Given the following user question, corresponding SQL query, "
    \o "and SQL result, answer the user question.\n\n"
    \o "Question: " \o st.question \o "\n"
    \o "SQL Query: " \o st.query \o "\n"
    \o "SQL Result: " \o st.result

\* lines 134-139
SuccessJson(st) ==
  [answer |-> JStr(st.answer), query |-> JStr(st.query),
   result |-> JStr(st.result), error |-> JNull]

\* Variant that reports the bare exception text.
ErrorJsonBare(text) ==
  [answer |-> JStr(""), query |-> JStr(""), result |-> JStr(""),
   error |-> JStr(text)]

\* lines 142-147
ErrorJson(text) ==
  [answer |-> JStr(""), query |-> JStr(""), result |-> JStr(""),
   error |-> JStr("Error: " \o text)]

\* Variant that generates the answer before executing the query.
NextStageSwapped(s) ==
  CASE s = "write_query" -> "generate_answer"
    [] s = "generate_answer" -> "execute_query"
    [] s = "execute_query" -> "format"
    [] s = "format" -> "done"

\* lines 125-134: the statement that follows each statement of the workflow
NextStage(s) ==
  CASE s = "write_query" -> "execute_query"
    [] s = "execute_query" -> "generate_answer"
    [] s = "generate_answer" -> "format"
    [] s = "format" -> "done"

NoResponse == [answer |-> JNull, query |-> JNull, result |-> JNull, error |-> JNull]

----------------------------------------------------------------------------
(* Deterministic stubs of the database and of the model (det = TRUE). *)
StubDialect == "postgresql"
StubTableInfo == "CREATE TABLE users (name TEXT)"
GoodSql == "SELECT name FROM users LIMIT 10"
BadSql == "SELECT age FROM users LIMIT 10"
GoodRows == "[('Alice',), ('Bob',)]"

StubWriteQuery(prompt) ==
  IF prompt.input = "Who are the users?" THEN Ok(GoodSql) ELSE Ok(BadSql)

StubRun(sql) ==
  IF sql = GoodSql THEN Ok(GoodRows)
  ELSE IF sql = BadSql THEN Raise("column \"age\" does not exist")
  ELSE Ok("")

EndsWith(s, suffix) ==
  Len(s) >= Len(suffix) /\ SubSeq(s, Len(s) - Len(suffix) + 1, Len(s)) = suffix

StubAnswer(prompt) ==
  IF EndsWith(prompt, "SQL Query: " \o GoodSql \o "\nSQL Result: " \o GoodRows)
    THEN Ok("The users are Alice and Bob.")
    ELSE Ok("")

\* What each external call of database_agent may do.
FromUriOutcomes ==
  IF det THEN {Ok("")} ELSE AnyOutcome({""}, {"connection refused"})
ChatOpenAIOutcomes ==
  IF det THEN {Ok("")} ELSE AnyOutcome({""}, {""})
TableInfoOutcomes ==
  IF det THEN {Ok(StubTableInfo)} ELSE AnyOutcome({StubTableInfo}, {"connection refused"})
WriteQueryOutcomes(prompt) ==
  IF det THEN {StubWriteQuery(prompt)} ELSE AnyOutcome(Sqls, {"rate limit exceeded"})
RunOutcomes(sql) ==
  IF det THEN {StubRun(sql)} ELSE AnyOutcome(Rows, {"column does not exist"})
AnswerOutcomes(prompt) ==
  IF det THEN {StubAnswer(prompt)} ELSE AnyOutcome(Answers, {"rate limit exceeded"})
DumpsOutcomes ==
  IF det THEN {Ok("")} ELSE AnyOutcome({""}, {"not JSON serializable"})

\* One logged external call: the operation, the object it was made through
\* (named by the invocation that created it), its argument and its outcome.
Call(op, via, arg, out) == [op |-> op, via |-> via, arg |-> arg, out |-> out]

\* lines 141-147: the except clause; the invocation returns the error object
Except(p, text) ==
  /\ dpc' = [dpc EXCEPT ![p] = "done"]
  /\ response' = [response EXCEPT ![p] = ErrorJson(text)]

\* Variant in which the state dict is one module-level object.
StateOfShared(p) == state[1]

\* lines 122-131: state is a local of the invocation; the three stage
\* functions and the final json.dumps read it
StateOf(p) == state[p]

\* lines 39-54: the tool is invoked and checks its configuration
DatabaseAgent(p, q) ==
  /\ prog = "DatabaseAgent"
  /\ dpc[p] = "idle"
  /\ question' = [question EXCEPT ![p] = q]
  /\ IF MissingConfig(env) # <<>>
       THEN Except(p, MissingConfig(env)[1])
       ELSE /\ dpc' = [dpc EXCEPT ![p] = "from_uri"]
            /\ UNCHANGED response
  /\ UNCHANGED <<prog, env, det, mailvars, db, llm, state, dcalls>>

\* line 57: db = SQLDatabase.from_uri(...)
FromUri(p) ==
  /\ dpc[p] = "from_uri"
  /\ \E o \in FromUriOutcomes :
       /\ dcalls' = [dcalls EXCEPT ![p] = Append(@, Call("from_uri", p, env.POSTGRESQL_URL.val, o))]
       /\ IF o.ok
            THEN /\ db' = [db EXCEPT ![p] = p]
                 /\ dpc' = [dpc EXCEPT ![p] = "init_llm"]
                 /\ UNCHANGED response
            ELSE /\ Except(p, o.val)
                 /\ UNCHANGED db
  /\ UNCHANGED <<prog, env, det, mailvars, question, llm, state>>

\* lines 60-122: llm = ChatOpenAI(...); the prompt template and the three
\* stage functions are defined; state = {...}
InitLLM(p) ==
  /\ dpc[p] = "init_llm"
  /\ \E o \in ChatOpenAIOutcomes :
       IF o.ok
         THEN /\ llm' = [llm EXCEPT ![p] = p]
              /\ state' = [state EXCEPT ![p] = NewState(question[p])]
              /\ dpc' = [dpc EXCEPT ![p] = "write_query"]
              /\ UNCHANGED response
         ELSE /\ Except(p, o.val)
              /\ UNCHANGED <<llm, state>>
  /\ UNCHANGED <<prog, env, det, mailvars, question, db, dcalls>>

\* line 125 (88-100): state.update(write_query(state))
WriteQuery(p) ==
  /\ dpc[p] = "write_query"
  /\ \E i \in TableInfoOutcomes :
       LET c1 == Call("get_table_info", db[p], "", i) IN
       IF ~i.ok
         THEN /\ dcalls' = [dcalls EXCEPT ![p] = Append(@, c1)]
              /\ Except(p, i.val)
              /\ UNCHANGED state
         ELSE LET prompt == QueryPrompt(StateOf(p), StubDialect, i.val) IN
              \E o \in WriteQueryOutcomes(prompt) :
                /\ dcalls' = [dcalls EXCEPT ![p] =
                                @ \o <<c1, Call("structured_invoke", llm[p], prompt, o)>>]
                /\ IF o.ok
                     THEN /\ state' = [state EXCEPT ![p].query = o.val]
                          /\ dpc' = [dpc EXCEPT ![p] = NextStage("write_query")]
                          /\ UNCHANGED response
                     ELSE /\ Except(p, o.val)
                          /\ UNCHANGED state
  /\ UNCHANGED <<prog, env, det, mailvars, question, db, llm>>

\* line 128 (103-106): state.update(execute_query(state))
ExecuteQuery(p) ==
  /\ dpc[p] = "execute_query"
  /\ \E o \in RunOutcomes(ExecArg(StateOf(p))) :
       /\ dcalls' = [dcalls EXCEPT ![p] = Append(@, Call("run", db[p], ExecArg(StateOf(p)), o))]
       /\ IF o.ok
            THEN /\ state' = [state EXCEPT ![p].result = o.val]
                 /\ dpc' = [dpc EXCEPT ![p] = NextStage("execute_query")]
                 /\ UNCHANGED response
            ELSE /\ Except(p, o.val)
                 /\ UNCHANGED state
  /\ UNCHANGED <<prog, env, det, mailvars, question, db, llm>>

\* line 131 (109-119): state.update(generate_answer(state))
GenerateAnswer(p) ==
  /\ dpc[p] = "generate_answer"
  /\ \E o \in AnswerOutcomes(AnswerPrompt(StateOf(p))) :
       /\ dcalls' = [dcalls EXCEPT ![p] = Append(@, Call("invoke", llm[p], AnswerPrompt(StateOf(p)), o))]
       /\ IF o.ok
            THEN /\ state' = [state EXCEPT ![p].answer = o.val]
                 /\ dpc' = [dpc EXCEPT ![p] = NextStage("generate_answer")]
                 /\ UNCHANGED response
            ELSE /\ Except(p, o.val)
                 /\ UNCHANGED state
  /\ UNCHANGED <<prog, env, det, mailvars, question, db, llm>>

\* lines 134-139: return json.dumps({...}); an encoder error is caught too
FormatOutput(p) ==
  /\ dpc[p] = "format"
  /\ \E o \in DumpsOutcomes :
       IF o.ok
         THEN /\ dpc' = [dpc EXCEPT ![p] = NextStage("format")]
              /\ response' = [response EXCEPT ![p] = SuccessJson(StateOf(p))]
         ELSE Except(p, o.val)
  /\ UNCHANGED <<prog, env, det, mailvars, question, db, llm, state, dcalls>>

NextDb ==
  \E p \in DbCalls :
    \/ \E q \in Questions : DatabaseAgent(p, q)
    \/ FromUri(p)
    \/ InitLLM(p)
    \/ WriteQuery(p)
    \/ ExecuteQuery(p)
    \/ GenerateAnswer(p)
    \/ FormatOutput(p)

----------------------------------------------------------------------------
(* send_email *)

\* Variant that checks the user name only.
MissingCredentialsUserOnly(e) == ~Truthy(e.SMTP_USER)

\* line 38
MissingCredentials(e) == ~Truthy(e.SMTP_USER) \/ ~Truthy(e.SMTP_PASSWORD)

\* lines 42-45
MIMEText(user, to, subject, body) ==
  [Subject |-> subject, From |-> user, To |-> to, body |-> body]

\* line 53
SuccessReport(to, subject) ==
  "Email successfully sent to " \o to \o " with subject: " \o subject

\* line 55
ErrorReport(text) == "Error sending email: " \o text

\* Variant that logs in before the TLS upgrade.
NextStepLoginFirst(s) ==
  CASE s = "Connecting" -> "Authenticating"
    [] s = "Authenticating" -> "StartTLS"
    [] s = "StartTLS" -> "Sending"
    [] s = "Sending" -> "Closing"
    [] s = "Closing" -> "Sent"

\* lines 48-53: the statement that follows each statement of the session
NextStep(s) ==
  CASE s = "Connecting" -> "StartTLS"
    [] s = "StartTLS" -> "Authenticating"
    [] s = "Authenticating" -> "Sending"
    [] s = "Sending" -> "Closing"
    [] s = "Closing" -> "Sent"

TransportTexts == {"", "(535, b'authentication rejected')"}
QuitTexts == {"(421, b'service not available')"}
StepOutcomes == AnyOutcome({""}, TransportTexts)
\* smtplib.SMTP.__exit__: QUIT; a reply other than 221 raises
QuitOutcomes == AnyOutcome({""}, QuitTexts)

MCall(op, via, arg, out) == [op |-> op, via |-> via, arg |-> arg, out |-> out]

\* lines 54-55: the except clause
MailExcept(m, text) ==
  /\ mpc' = [mpc EXCEPT ![m] = "Failed"]
  /\ report' = [report EXCEPT ![m] = ErrorReport(text)]

\* lines 16-45: the tool is invoked, reads its credentials and builds the message
SendEmail(m, to, subject, body) ==
  /\ prog = "EmailService"
  /\ mpc[m] = "Idle"
  /\ mail' = [mail EXCEPT ![m] = [to_email |-> to, subject |-> subject, body |-> body]]
  /\ IF MissingCredentials(env)
       THEN /\ MailExcept(m, "SMTP_USER and SMTP_PASSWORD environment variables are required")
            /\ UNCHANGED msg
       ELSE /\ msg' = [msg EXCEPT ![m] = MIMEText(env.SMTP_USER.val, to, subject, body)]
            /\ mpc' = [mpc EXCEPT ![m] = "Connecting"]
            /\ UNCHANGED report
  /\ UNCHANGED <<prog, env, det, dbvars, server, mcalls>>

\* line 48: smtplib.SMTP(smtp_server, smtp_port); a failure here never
\* enters the with block
Connect(m) ==
  /\ mpc[m] = "Connecting"
  /\ \E o \in StepOutcomes :
       /\ mcalls' = [mcalls EXCEPT ![m] = Append(@, MCall("connect", m, "smtp.gmail.com", o))]
       /\ IF o.ok
            THEN /\ server' = [server EXCEPT ![m] = m]
                 /\ mpc' = [mpc EXCEPT ![m] = NextStep("Connecting")]
                 /\ UNCHANGED report
            ELSE /\ MailExcept(m, o.val)
                 /\ UNCHANGED server
  /\ UNCHANGED <<prog, env, det, dbvars, mail, msg>>

\* A statement of the with block (lines 49-51). When it raises, the with
\* statement runs the session's __exit__ (QUIT) before the except clause; an
\* exception raised by __exit__ replaces the one in flight.
SessionStep(m, at, op, arg) ==
  /\ mpc[m] = at
  /\ \E o \in StepOutcomes :
       LET c == MCall(op, server[m], arg, o) IN
       IF o.ok
         THEN /\ mcalls' = [mcalls EXCEPT ![m] = Append(@, c)]
              /\ mpc' = [mpc EXCEPT ![m] = NextStep(at)]
              /\ UNCHANGED report
         ELSE \E x \in QuitOutcomes :
                /\ mcalls' = [mcalls EXCEPT ![m] = @ \o <<c, MCall("quit", server[m], "", x)>>]
                /\ MailExcept(m, IF x.ok THEN o.val ELSE x.val)
  /\ UNCHANGED <<prog, env, det, dbvars, mail, msg, server>>

\* line 49
StartTLS(m) == SessionStep(m, "StartTLS", "starttls", "")

\* line 50
Login(m) ==
  SessionStep(m, "Authenticating", "login", <<env.SMTP_USER.val, env.SMTP_PASSWORD.val>>)

\* line 51
SendMessage(m) == SessionStep(m, "Sending", "send_message", msg[m])

\* lines 48, 53: leaving the with block after the send (QUIT), then return
Close(m) ==
  /\ mpc[m] = "Closing"
  /\ \E x \in QuitOutcomes :
       /\ mcalls' = [mcalls EXCEPT ![m] = Append(@, MCall("quit", server[m], "", x))]
       /\ IF x.ok
            THEN /\ mpc' = [mpc EXCEPT ![m] = NextStep("Closing")]
                 /\ report' = [report EXCEPT ![m] =
                                 SuccessReport(mail[m].to_email, mail[m].subject)]
            ELSE MailExcept(m, x.val)
  /\ UNCHANGED <<prog, env, det, dbvars, mail, msg, server>>

NextMail ==
  \E m \in MailCalls :
    \/ \E to \in ToEmails, subject \in Subjects, body \in Bodies :
         SendEmail(m, to, subject, body)
    \/ Connect(m)
    \/ StartTLS(m)
    \/ Login(m)
    \/ SendMessage(m)
    \/ Close(m)

----------------------------------------------------------------------------
InitDbVars ==
  /\ dpc = [p \in DbCalls |-> "idle"]
  /\ question = [p \in DbCalls |-> ""]
  /\ db = [p \in DbCalls |-> 0]
  /\ llm = [p \in DbCalls |-> 0]
  /\ state = [p \in DbCalls |-> NewState("")]
  /\ dcalls = [p \in DbCalls |-> <<>>]
  /\ response = [p \in DbCalls |-> NoResponse]

InitMailVars ==
  /\ mpc = [m \in MailCalls |-> "Idle"]
  /\ mail = [m \in MailCalls |-> [to_email |-> "", subject |-> "", body |-> ""]]
  /\ msg = [m \in MailCalls |-> MIMEText("", "", "", "")]
  /\ server = [m \in MailCalls |-> 0]
  /\ mcalls = [m \in MailCalls |-> <<>>]
  /\ report = [m \in MailCalls |-> ""]

\* Each program reads its two names from its own environment; the model and
\* database stubs are deterministic only in runs of DatabaseAgent.
Init ==
  /\ prog \in {"DatabaseAgent", "EmailService"}
  /\ \/ /\ prog = "DatabaseAgent"
        /\ env \in [OPENAI_API_KEY : EnvValues, POSTGRESQL_URL : EnvValues]
        /\ det \in BOOLEAN
     \/ /\ prog = "EmailService"
        /\ env \in [SMTP_USER : EnvValues, SMTP_PASSWORD : EnvValues]
        /\ det = FALSE
  /\ InitDbVars
  /\ InitMailVars

Next == NextDb \/ NextMail

Spec == Init /\ [][Next]_vars

----------------------------------------------------------------------------
(* Helpers of the properties *)
Ops(log) == [i \in 1..Len(log) |-> log[i].op]
IsPrefix(a, b) == Len(a) <= Len(b) /\ \A i \in 1..Len(a) : a[i] = b[i]
Contains(s, sub) ==
  \E i \in 1..(Len(s) - Len(sub) + 1) : SubSeq(s, i, i + Len(sub) - 1) = sub
AllOk(log) == \A i \in 1..Len(log) : log[i].out.ok

Pipeline == <<"from_uri", "get_table_info", "structured_invoke", "run", "invoke">>
Session == <<"connect", "starttls", "login", "send_message", "quit">>

ConfigMissing ==
  prog = "DatabaseAgent"
    /\ (~Truthy(env.OPENAI_API_KEY) \/ ~Truthy(env.POSTGRESQL_URL))
CredentialsMissing ==
  prog = "EmailService" /\ (~Truthy(env.SMTP_USER) \/ ~Truthy(env.SMTP_PASSWORD))

NonEmptyStr(v) == v.t = "str" /\ v.s # ""
ErrorShape(r) ==
  r.answer = JStr("") /\ r.query = JStr("") /\ r.result = JStr("") /\ NonEmptyStr(r.error)
PopulatedShape(r) ==
  NonEmptyStr(r.answer) /\ NonEmptyStr(r.query) /\ NonEmptyStr(r.result) /\ r.error = JNull
ValueShape(r) ==
  r.answer.t = "str" /\ r.query.t = "str" /\ r.result.t = "str" /\ r.error = JNull

IsErrorReport(r) == Len(r) >= 21 /\ SubSeq(r, 1, 21) = "Error sending email: "
Handed(m) ==
  \E i \in 1..Len(mcalls[m]) : mcalls[m][i].op = "send_message" /\ mcalls[m][i].out.ok

----------------------------------------------------------------------------
(* C1 as stated: every returned object has answer, query and result all
   non-empty with error null, or all three empty with a non-empty error. *)
C1_TwoShapes ==
  \A p \in DbCalls :
    dpc[p] = "done" => PopulatedShape(response[p]) \/ ErrorShape(response[p])

(* C1 amended: every invocation ends by returning an object of one of two
   shapes: error null with answer, query and result the strings the three
   stages returned (any of them possibly empty), exactly when no call of the
   invocation raised; or all three empty with a non-empty error. *)
C1_ResponseShape ==
  \A p \in DbCalls :
    dpc[p] = "done" =>
      /\ ValueShape(response[p]) \/ ErrorShape(response[p])
      /\ ValueShape(response[p]) =>
           /\ Ops(dcalls[p]) = Pipeline /\ AllOk(dcalls[p])
           /\ response[p].query.s = dcalls[p][3].out.val
           /\ response[p].result.s = dcalls[p][4].out.val
           /\ response[p].answer.s = dcalls[p][5].out.val

C1_Witness ==
  \E p \in DbCalls :
    /\ dpc[p] = "done" /\ response[p].error = JNull
    /\ response[p].query.s # "" /\ response[p].result.s = ""
    /\ \E q \in DbCalls : dpc[q] = "done" /\ response[q].error = JStr("Error: ")

(* C2: the calls of an invocation follow the order connect, read schema,
   generate query, execute query, generate answer, each at most once; a call
   is made only if every earlier one returned; after a call that raised no
   further call is made and the response carries a non-empty error. *)
C2_StageOrder ==
  \A p \in DbCalls :
    /\ IsPrefix(Ops(dcalls[p]), Pipeline)
    /\ \A i \in 1..(Len(dcalls[p]) - 1) : dcalls[p][i].out.ok
    /\ ~AllOk(dcalls[p]) => dpc[p] = "done" /\ ErrorShape(response[p])
    /\ dpc[p] \in {"generate_answer", "format"} =>
         Len(dcalls[p]) >= 4 /\ dcalls[p][4].op = "run" /\ dcalls[p][4].out.ok

C2_Witness ==
  \E p \in DbCalls :
    /\ dpc[p] = "done"
    /\ Len(dcalls[p]) = 4 /\ dcalls[p][4].op = "run" /\ ~dcalls[p][4].out.ok
    /\ \E q \in DbCalls : dpc[q] = "done" /\ Len(dcalls[q]) = 5 /\ AllOk(dcalls[q])

(* C3: with OPENAI_API_KEY or POSTGRESQL_URL absent or empty, an invocation
   returns the error shape and makes no call to the model or the database. *)
C3_MissingConfig ==
  ConfigMissing =>
    \A p \in DbCalls :
      /\ dcalls[p] = <<>> /\ db[p] = 0 /\ llm[p] = 0
      /\ dpc[p] \in {"idle", "done"}
      /\ dpc[p] = "done" => ErrorShape(response[p])

C3_Witness ==
  /\ prog = "DatabaseAgent"
  /\ Truthy(env.OPENAI_API_KEY) /\ env.POSTGRESQL_URL = EnvVal("")
  /\ \E p \in DbCalls : dpc[p] = "done"

(* C4: when error is null, query is the text the model returned for this
   question and the text executed; result is what that execution returned;
   answer is the model's response to the prompt built from that question,
   query and result. *)
C4_Consistent ==
  \A p \in DbCalls :
    (dpc[p] = "done" /\ response[p].error = JNull) =>
      LET log == dcalls[p]  r == response[p] IN
      /\ Len(log) = 5
      /\ log[3].op = "structured_invoke" /\ log[3].arg.input = question[p]
      /\ r.query.s = log[3].out.val
      /\ log[4].op = "run" /\ log[4].arg = r.query.s
      /\ r.result.s = log[4].out.val
      /\ log[5].op = "invoke"
      /\ log[5].arg = AnswerPrompt([question |-> question[p], query |-> r.query.s,
                                    result |-> r.result.s, answer |-> ""])
      /\ r.answer.s = log[5].out.val

C4_Witness ==
  \E p \in DbCalls :
    /\ dpc[p] = "done" /\ response[p].error = JNull
    /\ response[p].query = JStr("SELECT name FROM users LIMIT 10")
    /\ response[p].result = JStr("[('Alice',), ('Bob',)]")
    /\ response[p].answer.s # ""

(* C5: with SMTP_USER or SMTP_PASSWORD absent or empty, send_email goes from
   Idle to Failed with an error string and makes no transport call. *)
C5_MissingCredentials ==
  CredentialsMissing =>
    \A m \in MailCalls :
      /\ mpc[m] \in {"Idle", "Failed"}
      /\ mcalls[m] = <<>> /\ server[m] = 0
      /\ mpc[m] = "Failed" => IsErrorReport(report[m])

C5_Witness ==
  /\ prog = "EmailService"
  /\ Truthy(env.SMTP_USER) /\ env.SMTP_PASSWORD = Unset
  /\ \E m \in MailCalls : mpc[m] = "Failed"

(* C6: at return either the message was handed to the transport and the
   report is the success string, or the report is an error string and the
   message was not handed to the transport. *)
C6_NoPartialSuccess ==
  \A m \in MailCalls :
    mpc[m] \in {"Sent", "Failed"} =>
      \/ Handed(m) /\ report[m] = SuccessReport(mail[m].to_email, mail[m].subject)
      \/ ~Handed(m) /\ IsErrorReport(report[m])

(* C7: a call all of whose steps succeed makes exactly the calls connect,
   starttls, login, send_message, quit in that order, once each; the message
   sent is the one built from its arguments; it ends Sent with a success
   string that contains to_email and subject. *)
C7_HappyPath ==
  \A m \in MailCalls :
    /\ (Len(mcalls[m]) = 5 /\ AllOk(mcalls[m])) <=> mpc[m] = "Sent"
    /\ AllOk(mcalls[m]) => IsPrefix(Ops(mcalls[m]), Session)
    /\ mpc[m] = "Sent" =>
         /\ Ops(mcalls[m]) = Session
         /\ mcalls[m][3].arg = <<env.SMTP_USER.val, env.SMTP_PASSWORD.val>>
         /\ mcalls[m][4].arg = MIMEText(env.SMTP_USER.val, mail[m].to_email,
                                        mail[m].subject, mail[m].body)
         /\ ~IsErrorReport(report[m])
         /\ Contains(report[m], mail[m].to_email)
         /\ Contains(report[m], mail[m].subject)

C7_Witness ==
  \E m \in MailCalls :
    mpc[m] = "Sent" /\ mail[m].to_email = "a@example.com" /\ mail[m].subject = "Hi"

(* C8: when connect, starttls, login or send_message raises, the handler is
   Failed, none of those steps is attempted afterwards or twice, and the
   report is an error string that contains the text of that exception. *)
C8_FailureReport ==
  \A m \in MailCalls :
    LET log == mcalls[m]
        fails == {i \in 1..Len(log) : log[i].op # "quit" /\ ~log[i].out.ok} IN
    fails # {} =>
      LET f == CHOOSE i \in fails : \A j \in fails : i <= j IN
      /\ mpc[m] = "Failed"
      /\ \A j \in (f + 1)..Len(log) : log[j].op = "quit"
      /\ IsPrefix(Ops(SubSeq(log, 1, f)), Session)
      /\ IsErrorReport(report[m])
      /\ Contains(report[m], log[f].out.val)

(* C9: with deterministic stubs, two finished invocations with the same
   question have returned the same object. *)
C9_Idempotent ==
  det =>
    \A p, q \in DbCalls :
      (dpc[p] = "done" /\ dpc[q] = "done" /\ question[p] = question[q]) =>
        response[p] = response[q]

C9_Witness ==
  /\ det
  /\ \E p, q \in DbCalls :
       /\ p # q /\ dpc[p] = "done" /\ dpc[q] = "done"
       /\ question[p] = question[q]
       /\ response[p].error = JNull /\ response[p].answer.s # ""

\* What database_agent(q) returns when it runs alone against the stubs.
RunAlone(q) ==
  IF MissingConfig(env) # <<>> THEN ErrorJson(MissingConfig(env)[1])
  ELSE
    LET s0 == NewState(q)
        w == StubWriteQuery(QueryPrompt(s0, StubDialect, StubTableInfo))
    IN IF ~w.ok THEN ErrorJson(w.val)
       ELSE LET s1 == [s0 EXCEPT !.query = w.val]
                x == StubRun(ExecArg(s1))
            IN IF ~x.ok THEN ErrorJson(x.val)
               ELSE LET s2 == [s1 EXCEPT !.result = x.val]
                        a == StubAnswer(AnswerPrompt(s2))
                    IN IF ~a.ok THEN ErrorJson(a.val)
                       ELSE SuccessJson([s2 EXCEPT !.answer = a.val])

(* C10: under every interleaving an invocation uses only the connection,
   model client, session and state it created: every call it makes goes
   through its own object and carries its own arguments, and what it
   returns is built from its own question (with deterministic stubs: what
   it returns when run alone) or its own recipient and subject. *)
C10_Isolation ==
  /\ \A p \in DbCalls :
       /\ db[p] \in {0, p} /\ llm[p] \in {0, p}
       /\ \A i \in 1..Len(dcalls[p]) : dcalls[p][i].via = p
       /\ dpc[p] \notin {"idle", "from_uri", "init_llm"} \/ dcalls[p] # <<>> =>
            state[p].question \in {"", question[p]}
       /\ Len(dcalls[p]) >= 3 => dcalls[p][3].arg.input = question[p]
       /\ (dpc[p] = "done" /\ response[p].error = JNull) =>
            /\ response[p].query.s = dcalls[p][3].out.val
            /\ response[p].result.s = dcalls[p][4].out.val
            /\ response[p].answer.s = dcalls[p][5].out.val
       /\ (det /\ dpc[p] = "done") => response[p] = RunAlone(question[p])
  /\ \A m \in MailCalls :
       /\ server[m] \in {0, m}
       /\ \A i \in 1..Len(mcalls[m]) :
            /\ mcalls[m][i].via = m
            /\ mcalls[m][i].op = "send_message" => mcalls[m][i].arg.To = mail[m].to_email
       /\ mpc[m] = "Sent" => report[m] = SuccessReport(mail[m].to_email, mail[m].subject)

C10_Witness ==
  \E p, q \in DbCalls :
    /\ question[p] # question[q]
    /\ dpc[p] = "generate_answer" /\ dpc[q] = "execute_query"

====
